---- MODULE Spec2Model ----
(***************************************************************************)
(* Model of the snake game of src/main.py: the Board/Snake/Apple objects   *)
(* and the main loop that drives them.                                     *)
(*                                                                         *)
(* A Position is a pair <<x, y>>.  A Segment is a record with a position   *)
(* and a direction; its colour and its is_head flag are display attributes *)
(* that no operation of the simulation reads, and are left out.            *)
(***************************************************************************)
EXTENDS Integers, Sequences, FiniteSets, TLC

VARIABLES width, height, score, snake, apple, GAME_ON, pc, key

vars == <<width, height, score, snake, apple, GAME_ON, pc, key>>

(***************************************************************************)
(* Bounds of the model.                                                    *)
(***************************************************************************)
\* Largest score a game on one of the small boards is followed to.
MaxScore == 5
\* Largest score a game on the 10x10 board is followed to.
MaxScoreTen == 1

\* Board sizes <<width, height>> the Board constructor is called with.  All
\* are at least 3x3, the smallest size for which spawn_apple's randint(1, n-2)
\* has a non-empty range.
TallBoards == {<<3, 6>>, <<4, 6>>}
\* The same, with a board less than 6 rows high.
SmallBoards == TallBoards \cup {<<3, 5>>}
TenBoard == <<10, 10>>

(***************************************************************************)
(* Position arithmetic and Direction.                                      *)
(***************************************************************************)
Position(x, y) == <<x, y>>

PosAdd(a, b) == Position(a[1] + b[1], a[2] + b[2])

PosSub(a, b) == Position(a[1] - b[1], a[2] - b[2])

Direction == {"N", "U", "D", "L", "R"}

\* value with the deltas of U and D exchanged.
value_flip(d) ==
    CASE d = "N" -> Position(0, 0)
      [] d = "U" -> Position(0, 1)
      [] d = "D" -> Position(0, -1)
      [] d = "L" -> Position(-1, 0)
      [] d = "R" -> Position(1, 0)

value(d) ==
    CASE d = "N" -> Position(0, 0)
      [] d = "U" -> Position(0, -1)
      [] d = "D" -> Position(0, 1)
      [] d = "L" -> Position(-1, 0)
      [] d = "R" -> Position(1, 0)

\* The arrow keys of key_to_direction; "r" is the restart key.
key_to_direction == {"L", "R", "U", "D"}

Segment(position, direction) == [position |-> position, direction |-> direction]

(***************************************************************************)
(* Snake.                                                                  *)
(***************************************************************************)
\* NewSnake with a head that starts moving Up.
NewSnake_up(x, y) == [head |-> Segment(Position(x, y), "U"), body |-> <<>>]

NewSnake(x, y) == [head |-> Segment(Position(x, y), "N"), body |-> <<>>]

\* grow with the new segment placed ahead of the last one.
grow_ahead(s) ==
    LET last_segment == IF s.body # <<>> THEN s.body[Len(s.body)] ELSE s.head
        direction == last_segment.direction
        position == PosAdd(last_segment.position, value(direction))
    IN  [s EXCEPT !.body = Append(@, Segment(position, direction))]

\* grow with the new segment placed on the last one (the subtraction left out).
grow_same(s) ==
    LET last_segment == IF s.body # <<>> THEN s.body[Len(s.body)] ELSE s.head
        direction == last_segment.direction
        position == last_segment.position
    IN  [s EXCEPT !.body = Append(@, Segment(position, direction))]

grow(s) ==
    LET last_segment == IF s.body # <<>> THEN s.body[Len(s.body)] ELSE s.head
        direction == last_segment.direction
        position == PosSub(last_segment.position, value(direction))
    IN  [s EXCEPT !.body = Append(@, Segment(position, direction))]

\* The loop "for i in range(len(body) - 1, 0, -1)", from the last index down;
\* indices here are the code's plus one.
RECURSIVE cascade(_, _)
cascade(body, i) ==
    IF i < 2 THEN body
    ELSE cascade([body EXCEPT ![i].direction = body[i - 1].direction], i - 1)

\* update_direction without the final body[0].direction = head.direction.
update_direction_nohead(s) == [s EXCEPT !.body = cascade(s.body, Len(s.body))]

update_direction(s) ==
    LET b == cascade(s.body, Len(s.body))
    IN  IF b # <<>>
        THEN [s EXCEPT !.body = [b EXCEPT ![1].direction = s.head.direction]]
        ELSE s

update_position(s) ==
    [head |-> [s.head EXCEPT !.position = PosAdd(@, value(s.head.direction))],
     body |-> [i \in 1..Len(s.body) |->
                 [s.body[i] EXCEPT !.position = PosAdd(@, value(s.body[i].direction))]]]

change_direction(s, direction) == [s EXCEPT !.head.direction = direction]

(***************************************************************************)
(* Board.                                                                  *)
(***************************************************************************)
\* check_snake_collision with > for >= in the right and bottom wall tests.
check_snake_collision_gt(s, w, h) ==
    LET head_pos == s.head.position
        body == s.body
    IN  \/ head_pos[1] < 0 \/ head_pos[2] < 0 \/ head_pos[1] > w \/ head_pos[2] > h
        \/ \E i \in 1..Len(body) :
              \/ body[i].position = head_pos
              \/ \E j \in (i + 1)..Len(body) : body[i].position = body[j].position

check_snake_collision(s, w, h) ==
    LET head_pos == s.head.position
        body == s.body
    IN  \/ head_pos[1] < 0 \/ head_pos[2] < 0 \/ head_pos[1] >= w \/ head_pos[2] >= h
        \/ \E i \in 1..Len(body) :
              \/ body[i].position = head_pos
              \/ \E j \in (i + 1)..Len(body) : body[i].position = body[j].position

\* The positions random.randint(1, width - 2) x random.randint(1, height - 2)
\* can return (both ends inclusive).
\* spawn_apple over the whole grid, randint(0, n - 1).
spawn_apple_edges(w, h) == {Position(x, y) : x \in 0..(w - 1), y \in 0..(h - 1)}

spawn_apple(w, h) == {Position(x, y) : x \in 1..(w - 2), y \in 1..(h - 2)}

StartSnake(w, h) == NewSnake((w \div 2) - 1, (h \div 2) - 1)

\* StartApple with an offset of 2 rows in place of 3.
StartApple_off(w, h) == Position((w \div 2) - 1, (h \div 2) - 2)

StartApple(w, h) == Position((w \div 2) - 1, (h \div 2) - 3)

\* turn without the test for a reversal.
turn_noreverse(s, direction) ==
    LET snake_dir == s.head.direction
    IN  IF snake_dir # direction
        THEN change_direction(s, direction)
        ELSE s

turn(s, direction) ==
    LET snake_dir == s.head.direction
    IN  IF snake_dir # direction
           /\ PosAdd(value(snake_dir), value(direction)) # Position(0, 0)
        THEN change_direction(s, direction)
        ELSE s

\* The score up to which a game is followed on the current board.
ScoreCap == IF <<width, height>> = TenBoard THEN MaxScoreTen ELSE MaxScore

(***************************************************************************)
(* Board(cell_width, width, height, colour) followed by GAME_ON = True.    *)
(***************************************************************************)
BoardInit(w, h) ==
    /\ width = w
    /\ height = h
    /\ score = 0
    /\ snake = StartSnake(w, h)
    /\ apple = StartApple(w, h)
    /\ GAME_ON = TRUE
    /\ pc = "events"
    /\ key = "none"

Init == \E b \in SmallBoards : BoardInit(b[1], b[2])

InitTall == \E b \in TallBoards : BoardInit(b[1], b[2])

InitTen == BoardInit(TenBoard[1], TenBoard[2])

(***************************************************************************)
(* The main loop.  Each iteration handles at most one KEYDOWN event (the   *)
(* break after the first one), then runs the tick.  key is the key of the  *)
(* KEYDOWN event handled in the current iteration.                         *)
(***************************************************************************)
\* set_board without score = 0.
set_board_keepscore ==
    /\ pc = "events"
    /\ snake' = StartSnake(width, height)
    /\ apple' = StartApple(width, height)
    /\ GAME_ON' = TRUE
    /\ key' = "r"
    /\ pc' = "tick"
    /\ UNCHANGED <<width, height, score>>

\* KEYDOWN with K_r: board.set_board(); GAME_ON = True.
set_board ==
    /\ pc = "events"
    /\ score' = 0
    /\ snake' = StartSnake(width, height)
    /\ apple' = StartApple(width, height)
    /\ GAME_ON' = TRUE
    /\ key' = "r"
    /\ pc' = "tick"
    /\ UNCHANGED <<width, height>>

\* KeyTurn without the break at line 329: a second arrow key e of the same
\* iteration is handled before d.
KeyTurn_nobreak(d) ==
    /\ pc = "events"
    /\ \E e \in key_to_direction : snake' = turn(turn(snake, e), d)
    /\ key' = d
    /\ pc' = "tick"
    /\ UNCHANGED <<width, height, score, apple, GAME_ON>>

\* KeyTurn with GAME_ON = True run for every key, not only for K_r.
KeyTurn_resume(d) ==
    /\ pc = "events"
    /\ snake' = turn(snake, d)
    /\ GAME_ON' = TRUE
    /\ key' = d
    /\ pc' = "tick"
    /\ UNCHANGED <<width, height, score, apple>>

\* KEYDOWN with an arrow key: board.turn(new_direction).
KeyTurn(d) ==
    /\ pc = "events"
    /\ snake' = turn(snake, d)
    /\ key' = d
    /\ pc' = "tick"
    /\ UNCHANGED <<width, height, score, apple, GAME_ON>>

\* No KEYDOWN event in the queue, or one with a key that is not bound.
NoKey ==
    /\ pc = "events"
    /\ key' = "none"
    /\ pc' = "tick"
    /\ UNCHANGED <<width, height, score, snake, apple, GAME_ON>>

\* A QUIT event: pg.quit(); sys.exit().
Quit ==
    /\ pc = "events"
    /\ pc' = "exit"
    /\ UNCHANGED <<width, height, score, snake, apple, GAME_ON, key>>

\* update with a respawn that avoids the cells of the snake.
update_exclude ==
    /\ pc = "tick"
    /\ GAME_ON
    /\ LET moved == update_direction(update_position(snake))
       IN  /\ GAME_ON' = IF check_snake_collision(moved, width, height)
                         THEN FALSE ELSE GAME_ON
           /\ IF moved.head.position = apple
              THEN /\ score < ScoreCap
                   /\ score' = score + 1
                   /\ snake' = grow(moved)
                   /\ apple' \in spawn_apple(width, height)
                   /\ apple' # snake'.head.position
                   /\ \A i \in 1..Len(snake'.body) : apple' # snake'.body[i].position
              ELSE /\ snake' = moved
                   /\ UNCHANGED <<score, apple>>
    /\ key' = "none"
    /\ pc' = "events"
    /\ UNCHANGED <<width, height>>

\* update called in every iteration, without the test of GAME_ON at line 331.
update_always ==
    /\ pc = "tick"
    /\ LET moved == update_direction(update_position(snake))
       IN  /\ GAME_ON' = IF check_snake_collision(moved, width, height)
                         THEN FALSE ELSE GAME_ON
           /\ IF moved.head.position = apple
              THEN /\ score < ScoreCap
                   /\ score' = score + 1
                   /\ snake' = grow(moved)
                   /\ apple' \in spawn_apple(width, height)
              ELSE /\ snake' = moved
                   /\ UNCHANGED <<score, apple>>
    /\ key' = "none"
    /\ pc' = "events"
    /\ UNCHANGED <<width, height>>

\* update with the two snake calls exchanged: directions first, then positions.
update_dirfirst ==
    /\ pc = "tick"
    /\ GAME_ON
    /\ LET moved == update_position(update_direction(snake))
       IN  /\ GAME_ON' = IF check_snake_collision(moved, width, height)
                         THEN FALSE ELSE GAME_ON
           /\ IF moved.head.position = apple
              THEN /\ score < ScoreCap
                   /\ score' = score + 1
                   /\ snake' = grow(moved)
                   /\ apple' \in spawn_apple(width, height)
              ELSE /\ snake' = moved
                   /\ UNCHANGED <<score, apple>>
    /\ key' = "none"
    /\ pc' = "events"
    /\ UNCHANGED <<width, height>>

\* if GAME_ON: board.update()
update ==
    /\ pc = "tick"
    /\ GAME_ON
    /\ LET moved == update_direction(update_position(snake))
       IN  /\ GAME_ON' = IF check_snake_collision(moved, width, height)
                         THEN FALSE ELSE GAME_ON
           /\ IF moved.head.position = apple
              THEN /\ score < ScoreCap
                   /\ score' = score + 1
                   /\ snake' = grow(moved)
                   /\ apple' \in spawn_apple(width, height)
              ELSE /\ snake' = moved
                   /\ UNCHANGED <<score, apple>>
    /\ key' = "none"
    /\ pc' = "events"
    /\ UNCHANGED <<width, height>>

\* else: draw_game_over()
draw_game_over ==
    /\ pc = "tick"
    /\ ~GAME_ON
    /\ key' = "none"
    /\ pc' = "events"
    /\ UNCHANGED <<width, height, score, snake, apple, GAME_ON>>

Next ==
    \/ set_board
    \/ \E d \in key_to_direction : KeyTurn(d)
    \/ NoKey
    \/ Quit
    \/ update
    \/ draw_game_over

Spec == Init /\ [][Next]_vars

SpecTall == InitTall /\ [][Next]_vars

SpecTen == InitTen /\ [][Next]_vars

(***************************************************************************)
(* Vocabulary of the properties.                                           *)
(***************************************************************************)
\* A step of the main loop that calls board.update().
UpdateStep == pc = "tick" /\ GAME_ON /\ pc' = "events"

\* A step of the main loop that handles the KEYDOWN event of key k.
KeyStep(k) == pc = "events" /\ pc' = "tick" /\ key' = k

InBounds(p) == 0 <= p[1] /\ p[1] < width /\ 0 <= p[2] /\ p[2] < height

\* The collision condition as the specification words it, for a head position
\* and the body segments that existed when the check ran.
SpecCollision(head_pos, body) ==
    \/ head_pos[1] < 0 \/ head_pos[2] < 0
    \/ head_pos[1] >= width \/ head_pos[2] >= height
    \/ \E i \in 1..Len(body) : body[i].position = head_pos
    \/ \E i, j \in 1..Len(body) : i # j /\ body[i].position = body[j].position

\* The body segments of the next state that already existed in this one.
OldBody == SubSeq(snake'.body, 1, Len(snake.body))

(***************************************************************************)
(* C1: the game starts in Playing; it leaves Playing only in update() when *)
(* the collision check is true; once in GameOver it stays there through    *)
(* loop iterations and turn() calls until reset(), the only operation that *)
(* returns it to Playing.                                                  *)
(***************************************************************************)
C1_Step ==
    /\ (GAME_ON /\ ~GAME_ON') =>
          (UpdateStep /\ SpecCollision(snake'.head.position, OldBody))
    /\ (~GAME_ON /\ GAME_ON') => KeyStep("r")
    /\ KeyStep("r") => GAME_ON'

C1_PlayingUntilCollisionGameOverUntilReset ==
    (GAME_ON = TRUE) /\ [][C1_Step]_vars

\* GameOver persists across a turn() call.
C1_Witness == ~GAME_ON /\ pc = "tick" /\ key \in key_to_direction

(***************************************************************************)
(* C2: in a tick in which update() detects a collision nothing else        *)
(* happens: score, body length and food position are unchanged, even when  *)
(* the head's position equals the food's position.                         *)
(***************************************************************************)
C2_CollisionTickHasNoOtherEffect ==
    [][(UpdateStep /\ ~GAME_ON') =>
          /\ score' = score
          /\ Len(snake'.body) = Len(snake.body)
          /\ apple' = apple]_vars

(***************************************************************************)
(* C3: update() ends the game exactly when, after the positions have been  *)
(* advanced, the head is out of bounds, or on a body segment, or two       *)
(* distinct body segments share a position; a head at (width-1, y) moving  *)
(* Right is GameOver after one update().                                   *)
(***************************************************************************)
C3_Step ==
    UpdateStep =>
       /\ ~GAME_ON' <=> SpecCollision(snake'.head.position, OldBody)
       /\ (snake.head.position[1] = width - 1 /\ snake.head.direction = "R")
             => ~GAME_ON'

C3_GameOverIffCollision == [][C3_Step]_vars

\* A game that ended on the snake's own body, the head inside the grid.
C3_Witness ==
    /\ ~GAME_ON
    /\ InBounds(snake.head.position)
    /\ \E i \in 1..Len(snake.body) : snake.body[i].position = snake.head.position

(***************************************************************************)
(* C4: turn(X) with head direction D leaves the whole state unchanged when *)
(* X = D or delta(X) + delta(D) = (0,0); otherwise it sets the head's      *)
(* direction to X and changes nothing else.                                *)
(***************************************************************************)
C4_Step ==
    \A X \in key_to_direction :
       KeyStep(X) =>
          LET D == snake.head.direction
          IN  IF X = D \/ PosAdd(value(X), value(D)) = Position(0, 0)
              THEN UNCHANGED <<snake, score, apple, GAME_ON, width, height>>
              ELSE /\ snake'.head.direction = X
                   /\ snake'.head.position = snake.head.position
                   /\ snake'.body = snake.body
                   /\ UNCHANGED <<score, apple, GAME_ON, width, height>>

C4_TurnIgnoresSameAndReverse == [][C4_Step]_vars

\* A reversal request on a snake that has a body, just handled and ignored.
C4_Witness ==
    /\ pc = "tick"
    /\ key \in key_to_direction
    /\ snake.head.direction # "N"
    /\ PosAdd(value(key), value(snake.head.direction)) = Position(0, 0)
    /\ snake.body # <<>>

(***************************************************************************)
(* C5: when update() moves the head onto the food's cell and no collision  *)
(* is detected, the score increases by exactly 1, the body gains exactly   *)
(* one segment and the food moves to (x, y) with 1 <= x <= width-2 and     *)
(* 1 <= y <= height-2; when the head does not land on the food's cell,     *)
(* score, body length and food position are unchanged.                     *)
(***************************************************************************)
C5_Step ==
    UpdateStep =>
       /\ (snake'.head.position = apple /\ GAME_ON') =>
             /\ score' = score + 1
             /\ Len(snake'.body) = Len(snake.body) + 1
             /\ 1 <= apple'[1] /\ apple'[1] <= width - 2
             /\ 1 <= apple'[2] /\ apple'[2] <= height - 2
       /\ snake'.head.position # apple =>
             /\ score' = score
             /\ Len(snake'.body) = Len(snake.body)
             /\ apple' = apple

C5_EatingScoresGrowsAndRespawns == [][C5_Step]_vars

\* A game still Playing after its second food.
C5_Witness == GAME_ON /\ score = 2 /\ Len(snake.body) = 2 /\ pc = "events"

(***************************************************************************)
(* C6: in every reachable state, on every board, the food's position is    *)
(* within bounds: 0 <= food.x < width and 0 <= food.y < height.            *)
(***************************************************************************)
C6_FoodInBounds == InBounds(apple)

(***************************************************************************)
(* C7: on every board, reset() followed by update() calls with no turn()   *)
(* in between never reports a collision: the head direction is None, the   *)
(* snake does not move, the game stays Playing, score and food unchanged.  *)
(***************************************************************************)
C7_Step ==
    /\ KeyStep("r") => snake'.head.direction = "N"
    /\ (UpdateStep /\ snake.head.direction = "N") =>
          /\ GAME_ON'
          /\ snake' = snake
          /\ score' = score
          /\ apple' = apple
    \* direction None is exactly the time between a reset and the first turn
    /\ (snake.head.direction = "N" /\ snake'.head.direction # "N") =>
          \E X \in key_to_direction : KeyStep(X)

C8_Step ==
    KeyStep("r") =>
       /\ score' = 0
       /\ snake'.body = <<>>
       /\ snake'.head.position = <<(width \div 2) - 1, (height \div 2) - 1>>
       /\ snake'.head.direction = "N"
       /\ apple' = <<(width \div 2) - 1, (height \div 2) - 3>>
       /\ GAME_ON'
       /\ UNCHANGED <<width, height>>

C8_ResetYieldsStartState == [][C8_Step]_vars

\* The state reset() leaves, before the tick of the same iteration.
C8_Witness ==
    /\ pc = "tick" /\ key = "r"
    /\ score = 0 /\ snake.body = <<>> /\ GAME_ON
    /\ apple = <<(width \div 2) - 1, (height \div 2) - 3>>

(***************************************************************************)
(* C9: grow() appends exactly one body segment at the end and changes no   *)
(* existing segment; with L the last segment before the call (the head     *)
(* when the body is empty), the new segment's position is                  *)
(* L.position - delta(L.direction) and its direction is L.direction.       *)
(***************************************************************************)
C9_Step ==
    (UpdateStep /\ score' # score) =>
       LET before == update_direction(update_position(snake))
           n == Len(before.body)
           L == IF n = 0 THEN before.head ELSE before.body[n]
       IN  /\ snake'.head = before.head
           /\ Len(snake'.body) = n + 1
           /\ SubSeq(snake'.body, 1, n) = before.body
           /\ snake'.body[n + 1].position[1] = L.position[1] - value(L.direction)[1]
           /\ snake'.body[n + 1].position[2] = L.position[2] - value(L.direction)[2]
           /\ snake'.body[n + 1].direction = L.direction

C9_GrowAppendsBehindLast == [][C9_Step]_vars

\* A snake that has grown from the head and then from a body segment.
C9_Witness == Len(snake.body) >= 2 /\ score >= 2

(***************************************************************************)
(* C10: on a 10x10 board, after reset() the head is at (4,4) with          *)
(* direction None and the food at (4,2); turn(Up) then update() moves the  *)
(* head to (4,3) with no collision and score 0; a second update() moves    *)
(* the head to (4,2), after which the score is 1, the snake has one body   *)
(* segment, the game is Playing and the food is at a position in bounds.   *)
(* The claim as stated adds that this position differs from (4,2).         *)
(***************************************************************************)
TenStart ==
    /\ width = 10 /\ height = 10
    /\ score = 0 /\ GAME_ON = TRUE
    /\ snake = [head |-> [position |-> <<4, 4>>, direction |-> "N"], body |-> <<>>]
    /\ apple = <<4, 2>>

TenTurned ==
    /\ width = 10 /\ height = 10
    /\ score = 0 /\ GAME_ON = TRUE
    /\ snake = [head |-> [position |-> <<4, 4>>, direction |-> "U"], body |-> <<>>]
    /\ apple = <<4, 2>>

TenMoved ==
    /\ width = 10 /\ height = 10
    /\ score = 0 /\ GAME_ON = TRUE
    /\ snake = [head |-> [position |-> <<4, 3>>, direction |-> "U"], body |-> <<>>]
    /\ apple = <<4, 2>>

TenAte ==
    /\ width = 10 /\ height = 10
    /\ score = 1 /\ GAME_ON = TRUE
    /\ snake.head.position = <<4, 2>>
    /\ Len(snake.body) = 1
    /\ InBounds(apple)

C10_Prefix ==
    /\ KeyStep("r") => TenStart'
    /\ (TenStart /\ KeyStep("U")) => TenTurned'
    /\ (TenTurned /\ UpdateStep) => TenMoved'

C10_Step ==
    /\ C10_Prefix
    /\ (TenMoved /\ UpdateStep) => TenAte'

C10_ScenarioFoodInBounds == TenStart /\ [][C10_Step]_vars

C10_OriginalStep ==
    /\ C10_Prefix
    /\ (TenMoved /\ UpdateStep) => (TenAte' /\ apple' # <<4, 2>>)

C10_ScenarioFoodElsewhere == TenStart /\ [][C10_OriginalStep]_vars

\* The end of the scenario, the food respawned under the head.
C10_Witness == TenAte /\ pc = "events" /\ apple = <<4, 2>>

(***************************************************************************)
(* C11: direction cascade.  In every update step, for every body segment   *)
(* that existed before the step, its direction after the step is the       *)
(* direction its predecessor (the head for the first one) had before the   *)
(* step; update() does not change the head's direction.                    *)
(***************************************************************************)
C11_Step ==
    UpdateStep =>
       /\ snake'.head.direction = snake.head.direction
       /\ \A i \in 1..Len(snake.body) :
             snake'.body[i].direction =
                IF i = 1 THEN snake.head.direction
                ELSE snake.body[i - 1].direction

C11_DirectionCascade == [][C11_Step]_vars

\* A bend travelling down the body: three body segments, not all one way.
C11_Witness ==
    /\ Len(snake.body) >= 3
    /\ snake.body[1].direction # snake.body[2].direction
    /\ snake.body[2].direction # snake.body[3].direction
    /\ pc = "events" /\ key = "none"

(***************************************************************************)
(* C12: in every update step the positions advance before the directions   *)
(* cascade: the head and every body segment move by the delta of the       *)
(* direction they held before the step; a straight snake of 3 segments all *)
(* facing Right shifts every position by (+1,0) and stays facing Right.    *)
(***************************************************************************)
StraightRight ==
    /\ Len(snake.body) = 2
    /\ snake.head.direction = "R"
    /\ \A i \in 1..2 :
          /\ snake.body[i].direction = "R"
          /\ snake.body[i].position =
                <<snake.head.position[1] - i, snake.head.position[2]>>

C12_Step ==
    UpdateStep =>
       /\ snake'.head.position[1] = snake.head.position[1] + value(snake.head.direction)[1]
       /\ snake'.head.position[2] = snake.head.position[2] + value(snake.head.direction)[2]
       /\ \A i \in 1..Len(snake.body) :
             /\ snake'.body[i].position[1] =
                   snake.body[i].position[1] + value(snake.body[i].direction)[1]
             /\ snake'.body[i].position[2] =
                   snake.body[i].position[2] + value(snake.body[i].direction)[2]
       /\ StraightRight =>
             /\ snake'.head.position =
                   <<snake.head.position[1] + 1, snake.head.position[2]>>
             /\ snake'.head.direction = "R"
             /\ \A i \in 1..2 :
                   /\ snake'.body[i].position =
                         <<snake.body[i].position[1] + 1, snake.body[i].position[2]>>
                   /\ snake'.body[i].direction = "R"

C12_PositionsBeforeDirections == [][C12_Step]_vars

\* The straight snake of 3 facing Right after a second step to the right.
C12_Witness ==
    /\ StraightRight
    /\ GAME_ON /\ pc = "events" /\ key = "none"
    /\ snake.head.position[1] = 3

(***************************************************************************)
(* C13: under the driver loop, which applies at most one turn() per        *)
(* iteration and always before that iteration's update(), the direction    *)
(* the head moves in one update() is never the negation of the (non-None)  *)
(* direction it moved in the previous update().                            *)
(***************************************************************************)
Reverse(d, e) == d # "N" /\ PosAdd(value(d), value(e)) = Position(0, 0)

C13_Step ==
    \* update() moves the head by its direction and keeps that direction ...
    /\ UpdateStep =>
          /\ snake'.head.position[1] = snake.head.position[1] + value(snake.head.direction)[1]
          /\ snake'.head.position[2] = snake.head.position[2] + value(snake.head.direction)[2]
          /\ snake'.head.direction = snake.head.direction
    \* ... so wherever an iteration starts in Playing, the head's direction is
    \* the one it moved in the previous update() (None if there was none) ...
    /\ (pc' = "events" /\ GAME_ON') => UpdateStep
    \* ... and the event handling before the next update() does not reverse it.
    /\ (pc = "events" /\ GAME_ON /\ pc' = "tick" /\ GAME_ON') =>
          ~Reverse(snake.head.direction, snake'.head.direction)

C13_NoReversalBetweenUpdates == [][C13_Step]_vars

\* A reversal requested while Playing, about to be followed by update().
C13_Witness ==
    /\ pc = "tick" /\ GAME_ON
    /\ key \in key_to_direction
    /\ snake.body # <<>>
    /\ Reverse(snake.head.direction, key)

(***************************************************************************)
(* C14: at every collision check performed while Playing, if the head is   *)
(* in bounds and on no body segment then no two distinct body segments     *)
(* share a position: no game ends on a body-vs-body match alone.           *)
(***************************************************************************)
C14_Step ==
    UpdateStep =>
       ((/\ InBounds(snake'.head.position)
         /\ \A i \in 1..Len(OldBody) : OldBody[i].position # snake'.head.position)
        => \A i, j \in 1..Len(OldBody) :
              i # j => OldBody[i].position # OldBody[j].position)

C14_BodyScanRedundant == [][C14_Step]_vars

\* A check passed by a snake with a bent body of four segments.
C14_Witness ==
    /\ GAME_ON /\ pc = "events" /\ key = "none"
    /\ Len(snake.body) = 4
    /\ snake.body[1].direction # snake.body[4].direction

(***************************************************************************)
(* C15: chain continuity.  After every update(), one that grows the snake  *)
(* included, every body segment is exactly one step behind its             *)
(* predecessor: body[i].position + delta(body[i].direction) is the         *)
(* position of body[i-1], of the head for the first segment; hence on the  *)
(* next position update each body segment lands on the cell its            *)
(* predecessor occupied.                                                   *)
(***************************************************************************)
Chain(s) ==
    \A i \in 1..Len(s.body) :
       LET pred == IF i = 1 THEN s.head ELSE s.body[i - 1]
       IN  /\ s.body[i].position[1] + value(s.body[i].direction)[1] = pred.position[1]
           /\ s.body[i].position[2] + value(s.body[i].direction)[2] = pred.position[2]

C15_Step ==
    UpdateStep =>
       /\ Chain(snake')
       /\ \A i \in 1..Len(snake.body) :
             snake'.body[i].position =
                IF i = 1 THEN snake.head.position ELSE snake.body[i - 1].position

C15_ChainContinuity == [][C15_Step]_vars

\* A snake of at least three body segments with a bend at its tail end.
C15_Witness ==
    /\ pc = "events" /\ key = "none"
    /\ Len(snake.body) >= 3
    /\ snake.body[Len(snake.body)].direction # snake.body[Len(snake.body) - 2].direction
    /\ Len(snake.body) = score

(***************************************************************************)
(* C16: while the game is GameOver update() is not applied: through any    *)
(* number of loop iterations without reset(), the score, every segment's   *)
(* position, the body length and the food position stay as they were.      *)
(***************************************************************************)
C16_Step ==
    (~GAME_ON /\ ~KeyStep("r")) =>
       /\ score' = score
       /\ apple' = apple
       /\ snake'.head.position = snake.head.position
       /\ Len(snake'.body) = Len(snake.body)
       /\ \A i \in 1..Len(snake.body) :
             snake'.body[i].position = snake.body[i].position

C16_GameOverFreezesBoard == [][C16_Step]_vars

\* A loop iteration begun in GameOver with no key pressed.
C16_Witness == ~GAME_ON /\ pc = "tick" /\ key = "none"

(***************************************************************************)
(* C17: food respawn performs no exclusion check against the snake: when   *)
(* update() is about to consume the food, every position (x, y) with       *)
(* 1 <= x <= width-2 and 1 <= y <= height-2 is a possible new food         *)
(* position, whatever the snake covers; so there is a reachable state,     *)
(* right after a consumption, in which the food is on a snake segment.     *)
(***************************************************************************)
OnSnake(p) ==
    \/ p = snake.head.position
    \/ \E i \in 1..Len(snake.body) : p = snake.body[i].position

AboutToEat ==
    /\ pc = "tick" /\ GAME_ON /\ score < ScoreCap
    /\ apple[1] = snake.head.position[1] + value(snake.head.direction)[1]
    /\ apple[2] = snake.head.position[2] + value(snake.head.direction)[2]

C17_RespawnHasNoExclusion ==
    AboutToEat =>
       \A x \in 1..(width - 2), y \in 1..(height - 2) :
          ENABLED (update /\ apple' = <<x, y>>)

\* Right after a consumption, the game Playing, the food under a body segment.
C17_Witness ==
    /\ pc = "events" /\ key = "none" /\ GAME_ON
    /\ score >= 1
    /\ \E i \in 1..Len(snake.body) : apple = snake.body[i].position

(***************************************************************************)
(* C18: in every reachable state the number of body segments equals the    *)
(* score: both are 0 after reset(), both increase by exactly 1 in the same *)
(* update() step, and neither decreases except by reset().                 *)
(***************************************************************************)
C18_Step ==
    /\ Len(snake'.body) = score'
    /\ KeyStep("r") => score' = 0
    /\ score' # score =>
          \/ UpdateStep /\ score' = score + 1
          \/ KeyStep("r")

C18_BodyLengthIsScore == (Len(snake.body) = score) /\ [][C18_Step]_vars

\* Three foods eaten, three body segments, a turn just handled.
C18_Witness ==
    /\ score = 3 /\ Len(snake.body) = 3
    /\ pc = "tick" /\ key \in key_to_direction

(***************************************************************************)
(* C19: in every state handed to the renderer while the game is Playing    *)
(* (the state at the end of an update() that detected no collision), every *)
(* snake segment, one just added by grow() included, lies within the grid  *)
(* and no two segments of the snake occupy the same cell.                  *)
(***************************************************************************)
Segments(s) == <<s.head>> \o s.body

AllInGrid(s) == \A i \in 1..Len(Segments(s)) : InBounds(Segments(s)[i].position)

AllApart(s) ==
    \A i, j \in 1..Len(Segments(s)) :
       i # j => Segments(s)[i].position # Segments(s)[j].position

C19_RenderedSnakeInGridAndApart ==
    [][(UpdateStep /\ GAME_ON') => (AllInGrid(snake') /\ AllApart(snake'))]_vars
====
